---- MODULE Spec2Model ----
(***************************************************************************)
(* A model of the CircuitPython transit predictions app: the 511.org       *)
(* extractor (JsonHandler), the controller TransitPredictions511, the loop *)
(* TransitPredictionsApp.run and the supervisor of code.py.                *)
(***************************************************************************)
EXTENDS Integers, Sequences, FiniteSets, TLC

VARIABLES
    pc,               \* where the program stands (code.py / run), or the extractor call last made
    source,           \* the class of the object run holds as self.__source
    agency,           \* TransitPredictions511.__agency
    stop_code,        \* TransitPredictions511.__stop_code
    route_codes,      \* TransitPredictions511.__route_codes (ordered list)
    direction,        \* TransitPredictions511.__direction
    max_predictions,  \* TransitPredictions511.__max_predictions
    data,             \* TransitPredictions511.__data (the document handed to the extractor)
    status_code,      \* TransitPredictions511.__status_code
    reason,           \* TransitPredictions511.__reason
    response,         \* the response object of the last fetch, with its open/closed flag
    routes,           \* the mapping predictions_for_route_codes last returned
    seconds_soonest,  \* the value prediction_seconds_soonest last returned
    predictions,      \* run's local: the lines get_predictions returned
    wait,             \* run's local: the value get_refresh_interval returned
    shown,            \* the show calls of the current cycle, in order
    slept,            \* the argument of the last sleep call
    exc,              \* the exception that escaped, "none" when none did
    lines,            \* Sign.__lines: the text of each label of the sign
    requests          \* the requests issued in the current cycle

vars == <<pc, source, agency, stop_code, route_codes, direction, max_predictions, data, status_code,
          reason, response, routes, seconds_soonest, predictions, wait, shown,
          slept, exc, lines, requests>>

-----------------------------------------------------------------------------
(* Program constants *)

ERROR_REFRESH_SEC == 30
MAX_REFRESH_SEC == 60
MIN_REFRESH_SEC == 10
DEFAULT_PREDICTIONS == 2
RESET_DELAY_SEC == 30
RUN_DELAY_SEC == 5

(* Bounds of the model *)

MaxVisits == 2

-----------------------------------------------------------------------------
(* Python values *)

\* every Python value carries its kind; Unset is a name not yet bound
None == [kind |-> "None"]
Unset == [kind |-> "unset"]
PyInt(i) == [kind |-> "int", n |-> i]
PyStr(t) == [kind |-> "str", s |-> t]

Range(seq) == {seq[i] : i \in 1..Len(seq)}

Min(a, b) == IF a < b THEN a ELSE b
Max(a, b) == IF a > b THEN a ELSE b

\* int(x / d) of Python: the quotient truncated towards zero
TruncDiv(x, d) == IF x >= 0 THEN x \div d ELSE -((-x) \div d)

-----------------------------------------------------------------------------
(* adafruit_datetime: an ISO timestamp names a day and a second of that    *)
(* day; the difference of two datetimes is a timedelta normalised to       *)
(* 0 <= seconds < 86400, with the sign carried by days.                    *)

SecondsPerDay == 24 * 60 * 60

fromisoformat(iso) == [ordinal |-> iso.day, second |-> iso.sec]

DatetimeSub(a, b) ==
    LET total == (a.ordinal - b.ordinal) * SecondsPerDay + (a.second - b.second)
    IN  [days |-> total \div SecondsPerDay, seconds |-> total % SecondsPerDay]

-----------------------------------------------------------------------------
(* The documents of the feed *)

RouteCodes == {"N", "J"}
Directions == {"IB", "OB"}

\* the line names the feed publishes for a route code
LineNames(code) == IF code = "N" THEN {"Judah"} ELSE {"Church"}

\* the response timestamps: 23:58:20 and 23:58:47 of day 1
ResponseTimestamps == {[day |-> 1, sec |-> 86300], [day |-> 1, sec |-> 86327]}

\* the expected arrivals: before the response, 30/3 s, 72/45 s, 119/92 s and
\* 527/500 s after it (the last two past midnight), and more than a day after it
ArrivalTimes ==
    { [day |-> 1, sec |-> 86240], [day |-> 1, sec |-> 86330],
      [day |-> 1, sec |-> 86372], [day |-> 2, sec |-> 19],
      [day |-> 2, sec |-> 427],   [day |-> 3, sec |-> 20] }

Visits ==
    { [LineRef |-> c, PublishedLineName |-> t, DirectionRef |-> d, ExpectedArrivalTime |-> a] :
        <<c, t, d, a>> \in { q \in RouteCodes \X {"Judah", "Church"} \X Directions \X ArrivalTimes :
                               q[2] \in LineNames(q[1]) } }

\* a visit of route J published under another line name than the others
OwlVisit ==
    [LineRef |-> "J", PublishedLineName |-> "Church Owl", DirectionRef |-> "IB",
     ExpectedArrivalTime |-> [day |-> 2, sec |-> 19]]

VisitLists == UNION {[1..n -> Visits \cup {OwlVisit}] : n \in 0..MaxVisits}

Documents ==
    [kind : {"feed"}, ResponseTimestamp : ResponseTimestamps, MonitoredStopVisit : VisitLists]

-----------------------------------------------------------------------------
(* JsonHandler (transit_predictions_511.py and transit_api_511.py) *)

Route(route_code, title) == [route_code |-> route_code, title |-> title, predictions |-> <<>>]

add_prediction(route, minutes) == [route EXCEPT !.predictions = Append(@, minutes)]

\* a mutant of VisitMatches: the direction is not compared
VisitMatchesAnyDirection(visit, codes, dir) == visit.LineRef \in Range(codes)

\* if route_code in route_codes and trip['DirectionRef'] == direction
VisitMatches(visit, codes, dir) ==
    visit.LineRef \in Range(codes) /\ visit.DirectionRef = dir

\* the timedelta between a visit's expected arrival and the response timestamp
ArrivalDelta(json, visit) ==
    DatetimeSub(fromisoformat(visit.ExpectedArrivalTime),
                fromisoformat(json.ResponseTimestamp))

\* minutes = int((prediction - now).seconds / 60)
VisitMinutes(json, visit) == TruncDiv(ArrivalDelta(json, visit).seconds, 60)

\* a mutant of AddVisit: the route takes the title of each visit added to it
AddVisitRetitled(json, acc, visit, codes, dir) ==
    IF ~VisitMatches(visit, codes, dir) THEN acc
    ELSE LET code == visit.LineRef
             route == IF code \in DOMAIN acc THEN acc[code]
                      ELSE Route(code, visit.PublishedLineName)
             retitled == [route_code |-> code, title |-> visit.PublishedLineName,
                          predictions |-> route.predictions]
         IN  [c \in DOMAIN acc \cup {code} |->
                 IF c = code THEN add_prediction(retitled, PyInt(VisitMinutes(json, visit)))
                 ELSE acc[c]]

\* one iteration of the loop over the visits
AddVisit(json, acc, visit, codes, dir) ==
    IF ~VisitMatches(visit, codes, dir) THEN acc
    ELSE LET code == visit.LineRef
             withRoute == IF code \in DOMAIN acc THEN acc
                          ELSE acc @@ (code :> Route(code, visit.PublishedLineName))
         IN  [withRoute EXCEPT ![code] = add_prediction(@, PyInt(VisitMinutes(json, visit)))]

RECURSIVE CollectVisits(_, _, _, _, _)
CollectVisits(json, acc, i, codes, dir) ==
    IF i > Len(json.MonitoredStopVisit) THEN acc
    ELSE CollectVisits(json, AddVisit(json, acc, json.MonitoredStopVisit[i], codes, dir),
                       i + 1, codes, dir)

\* a mutant of predictions_for_route_codes: the mapping is not started
\* afresh, the routes of the call before are kept
predictions_for_route_codes_kept(json, codes, dir) == CollectVisits(json, routes, 1, codes, dir)

\* predictions = {} and the loop over the visits
predictions_for_route_codes(json, codes, dir) == CollectVisits(json, <<>>, 1, codes, dir)

RECURSIVE FirstMatch(_, _, _, _)
FirstMatch(visits, i, codes, dir) ==
    IF i > Len(visits) THEN 0
    ELSE IF VisitMatches(visits[i], codes, dir) THEN i
    ELSE FirstMatch(visits, i + 1, codes, dir)

\* transit_predictions_511.JsonHandler.prediction_seconds_soonest
prediction_seconds_soonest(json, codes, dir) ==
    LET i == FirstMatch(json.MonitoredStopVisit, 1, codes, dir)
    IN  IF i = 0 THEN PyInt(0)
        ELSE PyInt(ArrivalDelta(json, json.MonitoredStopVisit[i]).seconds)

\* transit_api_511.JsonHandler.prediction_seconds_soonest
api_prediction_seconds_soonest(json, codes, dir) ==
    LET i == FirstMatch(json.MonitoredStopVisit, 1, codes, dir)
    IN  IF i = 0 THEN None
        ELSE PyInt(ArrivalDelta(json, json.MonitoredStopVisit[i]).seconds)

-----------------------------------------------------------------------------
(* The responses of the fetch: a status line and a gzip-framed body.  The  *)
(* body either has the framing decompress expects or not; its text either  *)
(* is a well-formed JSON document or not.                                  *)

EmptyObject == [kind |-> "empty"]     \* {} : a JSON value Python takes as false
OtherObject == [kind |-> "object"]    \* a JSON object without 'ServiceDelivery'

BadText == [wellformed |-> FALSE, value |-> None]
JsonText(value) == [wellformed |-> TRUE, value |-> value]

CorruptContent == [framing |-> "corrupt", text |-> BadText]
GzipContent(text) == [framing |-> "gzip", text |-> text]

\* the visits of the documents the loop is run on: 30/3 s, 72/45 s and
\* 527/500 s after the response and 60/87 s before it
RunVisits ==
    { [LineRef |-> "J", PublishedLineName |-> "Church", DirectionRef |-> "IB",
       ExpectedArrivalTime |-> [day |-> 1, sec |-> 86330]],
      [LineRef |-> "J", PublishedLineName |-> "Church", DirectionRef |-> "OB",
       ExpectedArrivalTime |-> [day |-> 1, sec |-> 86372]],
      [LineRef |-> "N", PublishedLineName |-> "Judah", DirectionRef |-> "IB",
       ExpectedArrivalTime |-> [day |-> 2, sec |-> 427]],
      [LineRef |-> "J", PublishedLineName |-> "Church", DirectionRef |-> "OB",
       ExpectedArrivalTime |-> [day |-> 1, sec |-> 86240]] }

RunDocuments ==
    [kind : {"feed"}, ResponseTimestamp : ResponseTimestamps,
     MonitoredStopVisit : UNION {[1..n -> RunVisits] : n \in 0..MaxVisits}]

SampleDocument ==
    [kind |-> "feed", ResponseTimestamp |-> [day |-> 1, sec |-> 86300],
     MonitoredStopVisit |->
        << [LineRef |-> "J", PublishedLineName |-> "Church", DirectionRef |-> "IB",
            ExpectedArrivalTime |-> [day |-> 1, sec |-> 86330]] >>]

SmallContents ==
    {CorruptContent, GzipContent(BadText)}
        \cup {GzipContent(JsonText(v)) : v \in {EmptyObject, OtherObject, SampleDocument}}

Contents == SmallContents \cup {GzipContent(JsonText(v)) : v \in RunDocuments}

StatusLines ==
    { <<199, "Info">>, <<200, "OK">>, <<299, "OK">>, <<300, "Multiple Choices">>,
      <<404, "Not Found">>, <<500, "Internal Server Error">> }

Responses ==
    { [kind |-> "response", status_code |-> l[1], reason |-> l[2], content |-> c, closed |-> FALSE] :
        <<l, c>> \in { q \in StatusLines \X Contents :
                         q[1][1] = 200 \/ q[2] \in SmallContents } }

-----------------------------------------------------------------------------
(* TransitPredictions511 *)

check_for_success(code) == 200 <= code /\ code < 300

\* Python's truth value of self.__data
Truthy(value) == value.kind \notin {"None", "unset", "empty"}

\* __poll: the fields it leaves, the response as it leaves it, and the
\* exception that escapes it.  decompress raises on a body without the
\* framing, loads on a text that is no JSON document, both before
\* response.close(); `del data` raises when the status was no success, as
\* `data` was then never bound.
Poll(resp) ==
    LET base == [data |-> None, status_code |-> PyInt(resp.status_code),
                 reason |-> PyStr(resp.reason), response |-> resp, exc |-> "none"]
    IN  IF check_for_success(resp.status_code)
        THEN IF resp.content.framing # "gzip"
             THEN [base EXCEPT !.exc = "zlib.error"]
             ELSE IF ~resp.content.text.wellformed
             THEN [base EXCEPT !.exc = "ValueError"]
             ELSE [base EXCEPT !.data = resp.content.text.value,
                               !.response = [resp EXCEPT !.closed = TRUE]]
        ELSE [base EXCEPT !.response = [resp EXCEPT !.closed = TRUE],
                          !.exc = "NameError"]

\* f'{value}' of an int or a str
FStr(value) == IF value.kind = "int" THEN ToString(value.n) ELSE value.s

RECURSIVE Join(_)
Join(tokens) ==
    IF Len(tokens) = 0 THEN ""
    ELSE IF Len(tokens) = 1 THEN tokens[1].s
    ELSE tokens[1].s \o " " \o Join(Tail(tokens))

\* a mutant of FormatRoute: every "0m" among the first n becomes "Now"
FormatRouteNowAnywhere(st, route_code, maxp) ==
    IF route_code \notin DOMAIN st.routes THEN st
    ELSE LET route == st.routes[route_code]
             n == Min(maxp, Len(route.predictions))
             marked == [i \in 1..Len(route.predictions) |->
                           IF i <= n THEN PyStr(FStr(route.predictions[i]) \o "m")
                           ELSE route.predictions[i]]
             nowed == [i \in 1..Len(marked) |->
                          IF marked[i] = PyStr("0m") THEN PyStr("Now") ELSE marked[i]]
         IN  [routes |-> [st.routes EXCEPT ![route_code].predictions = nowed],
              text |-> st.text \o <<route_code \o " " \o route.title,
                                    Join(SubSeq(nowed, 1, n))>>]

\* the body of the loop over self.__route_codes in get_predictions: the
\* route's first n predictions are overwritten by their display strings
FormatRoute(st, route_code, maxp) ==
    IF route_code \notin DOMAIN st.routes THEN st
    ELSE LET route == st.routes[route_code]
             n == Min(maxp, Len(route.predictions))
             marked == [i \in 1..Len(route.predictions) |->
                           IF i <= n THEN PyStr(FStr(route.predictions[i]) \o "m")
                           ELSE route.predictions[i]]
             nowed == [i \in 1..Len(marked) |->
                          IF i = 1 /\ marked[1] = PyStr("0m") THEN PyStr("Now")
                          ELSE marked[i]]
         IN  [routes |-> [st.routes EXCEPT ![route_code].predictions = nowed],
              text |-> st.text \o <<route_code \o " " \o route.title,
                                    Join(SubSeq(nowed, 1, n))>>]

\* transit_predictions_app_io.py
MAX_PREDICTIONS == 3

\* PredictionFormatter.format: the route as the call leaves it and the two
\* lines it returns
format(route) ==
    LET line_text == route.route_code \o " " \o route.title
        n == Min(MAX_PREDICTIONS, Len(route.predictions))
        marked == [i \in 1..Len(route.predictions) |->
                      IF i < n + 1 THEN PyStr(FStr(route.predictions[i]) \o "m")
                      ELSE route.predictions[i]]
        nowed == [i \in 1..Len(marked) |->
                     IF i = 1 /\ marked[1] = PyStr("0m") THEN PyStr("Now") ELSE marked[i]]
    IN  [route |-> [route EXCEPT !.predictions = nowed],
         text |-> <<line_text, Join(SubSeq(nowed, 1, n))>>]

\* a mutant of FormatRoutes: the route codes are visited last to first
RECURSIVE FormatRoutesBackwards(_, _, _, _)
FormatRoutesBackwards(st, codes, i, maxp) ==
    IF i > Len(codes) THEN st
    ELSE FormatRoute(FormatRoutesBackwards(st, codes, i + 1, maxp), codes[i], maxp)

RECURSIVE FormatRoutes(_, _, _, _)
FormatRoutes(st, codes, i, maxp) ==
    IF i > Len(codes) THEN st
    ELSE FormatRoutes(FormatRoute(st, codes[i], maxp), codes, i + 1, maxp)

NetworkErrorText(status, why) == <<"Network Error", FStr(status), FStr(why)>>

\* get_predictions after its poll: the lines it returns, the mapping the
\* extractor gave it as the loop over the route codes leaves it, and the
\* exception that escapes it
PredictionText(polled, codes, dir, maxp) ==
    IF polled.exc # "none"
    THEN [exc |-> polled.exc, text |-> <<>>, routes |-> <<>>]
    ELSE IF ~Truthy(polled.data)
    THEN [exc |-> "none", text |-> NetworkErrorText(polled.status_code, polled.reason),
          routes |-> <<>>]
    ELSE IF polled.data.kind # "feed"
    THEN [exc |-> "KeyError", text |-> <<>>, routes |-> <<>>]
    ELSE LET extracted == predictions_for_route_codes(polled.data, codes, dir)
             st == FormatRoutes([routes |-> extracted, text |-> <<>>], codes, 1, maxp)
         IN  [exc |-> "none", text |-> st.text, routes |-> st.routes]

\* a mutant of Clamp: the bounds are applied in the other order
ClampMinFirst(seconds) == Min(Max(seconds, MAX_REFRESH_SEC), MIN_REFRESH_SEC)

\* a mutant of Clamp: the lower bound is forgotten
ClampNoFloor(seconds) == Min(seconds, MAX_REFRESH_SEC)

\* max(min(seconds_soonest, MAX_REFRESH_SEC), MIN_REFRESH_SEC)
Clamp(seconds) == Max(Min(seconds, MAX_REFRESH_SEC), MIN_REFRESH_SEC)

-----------------------------------------------------------------------------
(* The sign *)

\* the labels get_display gives the Sign, each with the text it starts with
SignLines == <<"Predictions", "for SF MUNI", "using API", "511.org">>

\* a mutant of SignShow: the labels are not wiped first
SignShowNoWipe(slots, text) ==
    [i \in 1..Len(slots) |-> IF i <= Min(Len(slots), Len(text)) THEN text[i] ELSE slots[i]]

\* Sign.show: every label is wiped, then the first n lines are written
SignShow(slots, text) ==
    LET wiped == [i \in 1..Len(slots) |-> ""]
        n == Min(Len(slots), Len(text))
    IN  [i \in 1..Len(slots) |-> IF i <= n THEN text[i] ELSE wiped[i]]

-----------------------------------------------------------------------------
(* The configurations *)

Sources == {"TransitPredictions511", "TransitApi"}

RunConfigs ==
    { [agency |-> "SF", stop_code |-> "13911", route_codes |-> <<"N", "J">>,
       direction |-> "IB", max_predictions |-> DEFAULT_PREDICTIONS],
      [agency |-> "SF", stop_code |-> "15727", route_codes |-> <<"J">>,
       direction |-> "OB", max_predictions |-> 1],
      [agency |-> "SF", stop_code |-> "13911", route_codes |-> <<"J", "J">>,
       direction |-> "IB", max_predictions |-> DEFAULT_PREDICTIONS] }

FilterLists == {<<"N", "J">>, <<"J">>, <<"J", "N">>}

-----------------------------------------------------------------------------
(* code.py and TransitPredictionsApp.run *)

Init ==
    /\ pc = "boot"
    /\ source \in Sources
    /\ \E c \in RunConfigs :
          /\ agency = c.agency
          /\ stop_code = c.stop_code
          /\ route_codes = c.route_codes
          /\ direction = c.direction
          /\ max_predictions = c.max_predictions
    /\ data = Unset
    /\ status_code = Unset
    /\ reason = Unset
    /\ response = Unset
    /\ routes = <<>>
    /\ seconds_soonest = Unset
    /\ predictions = <<>>
    /\ wait = Unset
    /\ shown = <<>>
    /\ slept = Unset
    /\ exc = "none"
    /\ lines = SignLines
    /\ requests = 0

\* code.py: sleep(RUN_DELAY_SEC), Wifi.connect, Wifi.get_session and
\* TransitPredictionsApp(requests); connecting may raise
Boot ==
    /\ pc = "boot"
    /\ \E connected \in BOOLEAN :
          IF connected
          THEN pc' = "get_predictions" /\ exc' = "none"
          ELSE pc' = "except" /\ exc' = "ConnectionError"
    /\ slept' = PyInt(RUN_DELAY_SEC)
    /\ UNCHANGED <<lines, requests, source, agency, stop_code, route_codes, direction,
                   max_predictions, data, status_code,
                   reason, response, routes, seconds_soonest, predictions, wait, shown>>

\* run: predictions = self.__source.get_predictions(), with its poll
GetPredictions ==
    /\ pc = "get_predictions"
    /\ source = "TransitPredictions511"
    /\ \E resp \in Responses :
          LET polled == Poll(resp)
              got == PredictionText(polled, route_codes, direction, max_predictions)
          IN  /\ data' = polled.data
              /\ status_code' = polled.status_code
              /\ reason' = polled.reason
              /\ response' = polled.response
              /\ routes' = got.routes
              /\ exc' = got.exc
              /\ IF got.exc = "none"
                 THEN pc' = "get_refresh_interval" /\ predictions' = got.text
                 ELSE pc' = "except" /\ UNCHANGED predictions
    /\ requests' = requests + 1
    /\ UNCHANGED <<lines, source, agency, stop_code, route_codes, direction,
                   max_predictions, seconds_soonest,
                   wait, shown, slept>>

\* run with the source get_source builds: a TransitApi has no get_predictions
GetPredictionsOfTransitApi ==
    /\ pc = "get_predictions"
    /\ source = "TransitApi"
    /\ pc' = "except"
    /\ exc' = "AttributeError"
    /\ UNCHANGED <<lines, requests, source, agency, stop_code, route_codes, direction,
                   max_predictions, data, status_code,
                   reason, response, routes, seconds_soonest, predictions, wait, shown,
                   slept>>

\* a mutant of GetRefreshInterval: the call drops the first configured route
\* code
GetRefreshIntervalDroppingCode ==
    /\ pc = "get_refresh_interval"
    /\ IF ~Truthy(data)
       THEN /\ wait' = PyInt(ERROR_REFRESH_SEC)
            /\ UNCHANGED seconds_soonest
       ELSE /\ seconds_soonest' = prediction_seconds_soonest(data, route_codes, direction)
            /\ wait' = PyInt(Clamp(seconds_soonest'.n))
    /\ pc' = "show"
    /\ route_codes' = Tail(route_codes)
    /\ UNCHANGED <<lines, requests, source, agency, stop_code, direction, max_predictions,
                   data, status_code, reason, response, routes, predictions, shown, slept,
                   exc>>

\* run: wait = self.__source.get_refresh_interval()
GetRefreshInterval ==
    /\ pc = "get_refresh_interval"
    /\ IF ~Truthy(data)
       THEN /\ wait' = PyInt(ERROR_REFRESH_SEC)
            /\ UNCHANGED seconds_soonest
       ELSE /\ seconds_soonest' = prediction_seconds_soonest(data, route_codes, direction)
            /\ wait' = PyInt(Clamp(seconds_soonest'.n))
    /\ pc' = "show"
    /\ UNCHANGED <<lines, requests, source, agency, stop_code, route_codes, direction,
                   max_predictions, data, status_code,
                   reason, response, routes, predictions, shown, slept, exc>>

\* run: self.__display.show(predictions)
Show ==
    /\ pc = "show"
    /\ shown' = Append(shown, predictions)
    /\ lines' = SignShow(lines, predictions)
    /\ pc' = "sleep"
    /\ UNCHANGED <<requests, source, agency, stop_code, route_codes, direction,
                   max_predictions, data, status_code,
                   reason, response, routes, seconds_soonest, predictions, wait, slept,
                   exc>>

\* run: sleep(wait), and the loop starts its next cycle
Sleep ==
    /\ pc = "sleep"
    /\ slept' = wait
    /\ shown' = <<>>
    /\ requests' = 0
    /\ pc' = "get_predictions"
    /\ UNCHANGED <<lines, source, agency, stop_code, route_codes, direction,
                   max_predictions, data, status_code,
                   reason, response, routes, seconds_soonest, predictions, wait, exc>>

\* a mutant of Supervise: the device is reset without the delay
SuperviseWithoutDelay ==
    /\ pc = "except"
    /\ pc' = "reset"
    /\ UNCHANGED <<lines, requests, source, agency, stop_code, route_codes, direction,
                   max_predictions, data, status_code, reason, response, routes,
                   seconds_soonest, predictions, wait, shown, slept, exc>>

\* code.py: except Exception: sleep(RESET_DELAY_SEC); reset()
Supervise ==
    /\ pc = "except"
    /\ slept' = PyInt(RESET_DELAY_SEC)
    /\ pc' = "reset"
    /\ UNCHANGED <<lines, requests, source, agency, stop_code, route_codes, direction,
                   max_predictions, data, status_code,
                   reason, response, routes, seconds_soonest, predictions, wait, shown,
                   exc>>

\* the device restarts and runs code.py afresh, with the same settings
Restart ==
    /\ pc = "reset"
    /\ pc' = "boot"
    /\ data' = Unset
    /\ status_code' = Unset
    /\ reason' = Unset
    /\ response' = Unset
    /\ routes' = <<>>
    /\ seconds_soonest' = Unset
    /\ predictions' = <<>>
    /\ wait' = Unset
    /\ shown' = <<>>
    /\ slept' = Unset
    /\ exc' = "none"
    /\ lines' = SignLines
    /\ requests' = 0
    /\ UNCHANGED <<source, agency, stop_code, route_codes, direction,
                   max_predictions>>

Next ==
    \/ Boot
    \/ GetPredictions
    \/ GetPredictionsOfTransitApi
    \/ GetRefreshInterval
    \/ Show
    \/ Sleep
    \/ Supervise
    \/ Restart

Spec == Init /\ [][Next]_vars

-----------------------------------------------------------------------------
(* The extractor on its own: each of its functions applied to a document,  *)
(* a filter list and a direction.                                          *)

ExtractInit ==
    /\ pc = "input"
    /\ source = "JsonHandler"
    /\ agency = "SF"
    /\ stop_code = "13911"
    /\ route_codes \in FilterLists
    /\ direction \in Directions
    /\ max_predictions = DEFAULT_PREDICTIONS
    /\ data \in Documents
    /\ status_code = Unset
    /\ reason = Unset
    /\ response = Unset
    /\ routes = <<>>
    /\ seconds_soonest = Unset
    /\ predictions = <<>>
    /\ wait = Unset
    /\ shown = <<>>
    /\ slept = Unset
    /\ exc = "none"
    /\ lines = SignLines
    /\ requests = 0

CallPredictionsForRouteCodes ==
    /\ pc' = "predictions_for_route_codes"
    /\ routes' = predictions_for_route_codes(data, route_codes, direction)
    /\ UNCHANGED <<lines, requests, source, agency, stop_code, route_codes, direction,
                   max_predictions, data, status_code,
                   reason, response, seconds_soonest, predictions, wait, shown, slept,
                   exc>>

CallPredictionSecondsSoonest ==
    /\ pc' = "prediction_seconds_soonest"
    /\ seconds_soonest' = prediction_seconds_soonest(data, route_codes, direction)
    /\ UNCHANGED <<lines, requests, source, agency, stop_code, route_codes, direction,
                   max_predictions, data, status_code,
                   reason, response, routes, predictions, wait, shown, slept, exc>>

CallApiPredictionSecondsSoonest ==
    /\ pc' = "transit_api_511.prediction_seconds_soonest"
    /\ seconds_soonest' = api_prediction_seconds_soonest(data, route_codes, direction)
    /\ UNCHANGED <<lines, requests, source, agency, stop_code, route_codes, direction,
                   max_predictions, data, status_code,
                   reason, response, routes, predictions, wait, shown, slept, exc>>

ExtractNext ==
    \/ CallPredictionsForRouteCodes
    \/ CallPredictionSecondsSoonest
    \/ CallApiPredictionSecondsSoonest

ExtractSpec == ExtractInit /\ [][ExtractNext]_vars

-----------------------------------------------------------------------------
(* The formatters on their own: PredictionFormatter.format and the loop of *)
(* get_predictions applied to a route as the extractor builds it.          *)

MaxRoutePredictions == 4

Minutes == {0, 5, 12}

MinuteLists == UNION {[1..k -> {PyInt(m) : m \in Minutes}] : k \in 1..MaxRoutePredictions}

FormatInit ==
    /\ pc = "input"
    /\ source = "formatter"
    /\ agency = "SF"
    /\ stop_code = "13911"
    /\ route_codes = <<"J">>
    /\ direction = "IB"
    /\ max_predictions \in 1..MAX_PREDICTIONS
    /\ data = Unset
    /\ status_code = Unset
    /\ reason = Unset
    /\ response = Unset
    /\ \E p \in MinuteLists : routes = ("J" :> [Route("J", "Church") EXCEPT !.predictions = p])
    /\ seconds_soonest = Unset
    /\ predictions = <<>>
    /\ wait = Unset
    /\ shown = <<>>
    /\ slept = Unset
    /\ exc = "none"
    /\ lines = SignLines
    /\ requests = 0

CallFormat ==
    /\ pc = "input"
    /\ pc' = "PredictionFormatter.format"
    /\ LET formatted == format(routes[route_codes[1]])
       IN  /\ routes' = [routes EXCEPT ![route_codes[1]] = formatted.route]
           /\ predictions' = formatted.text
    /\ UNCHANGED <<lines, requests, source, agency, stop_code, route_codes, direction,
                   max_predictions, data,
                   status_code, reason, response, seconds_soonest, wait, shown, slept, exc>>

CallFormatRoutes ==
    /\ pc = "input"
    /\ pc' = "get_predictions"
    /\ LET st == FormatRoutes([routes |-> routes, text |-> <<>>], route_codes, 1,
                              max_predictions)
       IN  /\ routes' = st.routes
           /\ predictions' = st.text
    /\ UNCHANGED <<lines, requests, source, agency, stop_code, route_codes, direction,
                   max_predictions, data,
                   status_code, reason, response, seconds_soonest, wait, shown, slept, exc>>

FormatNext ==
    \/ CallFormat
    \/ CallFormatRoutes

FormatSpec == FormatInit /\ [][FormatNext]_vars

-----------------------------------------------------------------------------
(* The sign on its own: show called with any list of lines, time and       *)
(* again; `shown` keeps the last two lists.                                *)

MaxLines == 5

LineTexts == {"J Church", "Now 5m"}

Texts == UNION {[1..n -> LineTexts] : n \in 0..MaxLines}

SignInit ==
    /\ pc = "Sign"
    /\ source = "Sign"
    /\ agency = "SF"
    /\ stop_code = "13911"
    /\ route_codes = <<>>
    /\ direction = "IB"
    /\ max_predictions = DEFAULT_PREDICTIONS
    /\ data = Unset
    /\ status_code = Unset
    /\ reason = Unset
    /\ response = Unset
    /\ routes = <<>>
    /\ seconds_soonest = Unset
    /\ predictions = <<>>
    /\ wait = Unset
    /\ shown = <<>>
    /\ slept = Unset
    /\ exc = "none"
    /\ lines = SignLines
    /\ requests = 0

CallShow ==
    /\ \E text \in Texts :
          /\ lines' = SignShow(lines, text)
          /\ shown' = IF Len(shown) < 2 THEN Append(shown, text) ELSE <<shown[2], text>>
    /\ pc' = "Sign.show"
    /\ UNCHANGED <<requests, source, agency, stop_code, route_codes, direction,
                   max_predictions, data,
                   status_code, reason, response, routes, seconds_soonest, predictions,
                   wait, slept, exc>>

SignNext == CallShow

SignSpec == SignInit /\ [][SignNext]_vars

-----------------------------------------------------------------------------
(* What the claims speak of *)

Controller == source = "TransitPredictions511"

\* a fetch was made since the device started
Fetched == response.kind = "response"

\* get_refresh_interval has returned in the current cycle
IntervalReturned == pc \in {"show", "sleep"}

SuccessStatus(code) == code \in 200..299

Decodable(content) == content.framing = "gzip" /\ content.text.wellformed

\* the visit is of a configured route code and of the configured direction
Wanted(visit) ==
    /\ \E k \in 1..Len(route_codes) : route_codes[k] = visit.LineRef
    /\ visit.DirectionRef = direction

WantedVisits == {i \in 1..Len(data.MonitoredStopVisit) : Wanted(data.MonitoredStopVisit[i])}

\* (expected_arrival - reference_instant).total_seconds() of a visit of the document
SecondsUntil(visit) ==
    (visit.ExpectedArrivalTime.day - data.ResponseTimestamp.day) * 86400
        + (visit.ExpectedArrivalTime.sec - data.ResponseTimestamp.sec)

-----------------------------------------------------------------------------
(* The claims *)

\* C1: no exception escapes a poll cycle of the controller: whatever the
\* fetch returned, the cycle goes on to the display and the sleep, and the
\* supervisor is not reached.
C1_NoExceptionEscapesCycle ==
    (Controller /\ Fetched) => (exc = "none" /\ pc \notin {"except", "reset"})

\* C2: when the fetch returns a status outside [200,300), get_predictions
\* returns ["Network Error", <status>, <reason>] and get_refresh_interval
\* returns ERROR_REFRESH_SEC.
C2_NonSuccessGivesNetworkError ==
    (Controller /\ Fetched /\ ~SuccessStatus(response.status_code)) =>
        /\ exc = "none"
        /\ predictions = <<"Network Error", ToString(response.status_code), response.reason>>
        /\ IntervalReturned => wait = PyInt(30)

\* C3: when the fetch returns a status in [200,300) with a body that cannot
\* be decompressed or is no JSON document, the sink receives the three
\* "Network Error" lines and the refresh interval is ERROR_REFRESH_SEC.
C3_UndecodableBodyGivesNetworkError ==
    (Controller /\ Fetched /\ SuccessStatus(response.status_code)
        /\ ~Decodable(response.content)) =>
        /\ exc = "none"
        /\ Len(predictions) = 3
        /\ predictions[1] = "Network Error"
        /\ predictions[2] = ToString(response.status_code)
        /\ IntervalReturned => wait = PyInt(30)
        /\ pc = "sleep" => shown = <<predictions>>

\* C4, as claimed: the refresh interval is in [10, 60] when the last poll
\* succeeded, and is 30 when and only when the last poll failed.
C4_IntervalIs30IffPollFailed ==
    IntervalReturned =>
        LET succeeded == SuccessStatus(response.status_code) /\ Decodable(response.content)
        IN  /\ wait.kind = "int"
            /\ succeeded => wait.n \in 10..60
            /\ (wait.n = 30) <=> ~succeeded

\* C4, amended: the refresh interval returned (and then slept) is an integer
\* in [10, 60]; it is 30 whenever the controller holds no document (none, or
\* an empty one), and 30 is also returned after polls that succeeded.
C4_IntervalInRange ==
    /\ IntervalReturned =>
          /\ wait.kind = "int"
          /\ wait.n \in 10..60
          /\ data.kind \in {"None", "empty"} => wait.n = 30
    /\ (pc = "get_predictions" /\ Fetched) => (slept = wait /\ slept.n \in 10..60)

\* C4's case: a poll that succeeded on a feed document, and the interval is 30
C4_Witness ==
    /\ pc = "sleep"
    /\ SuccessStatus(response.status_code)
    /\ data.kind = "feed"
    /\ wait = PyInt(30)

\* C5: after a successful poll with at least one matching visit, the refresh
\* interval is seconds_soonest clamped to [10, 60]: 10 below 10, 60 above 60,
\* unchanged in between.
C5_IntervalIsClampedSoonest ==
    (IntervalReturned /\ data.kind = "feed" /\ WantedVisits # {}) =>
        /\ seconds_soonest.kind = "int"
        /\ wait = PyInt(IF seconds_soonest.n < 10 THEN 10
                        ELSE IF seconds_soonest.n > 60 THEN 60
                        ELSE seconds_soonest.n)

\* C5's case: the soonest arrival is 45 seconds away, and the interval is 45
C5_Witness ==
    /\ pc = "show"
    /\ data.kind = "feed"
    /\ WantedVisits # {}
    /\ seconds_soonest = PyInt(45)
    /\ wait = PyInt(45)

\* C6: after a successful fetch of a document with no matching visit, the
\* sink is called with an empty line sequence and the refresh interval is
\* MAX_REFRESH_SEC (60).
C6_NoMatchGivesMaxRefresh ==
    (IntervalReturned /\ data.kind = "feed" /\ WantedVisits = {}) =>
        /\ predictions = <<>>
        /\ wait = PyInt(60)
        /\ pc = "sleep" => shown = << <<>> >>

\* C7: predictions_for_route_codes returns a mapping whose keys are all in
\* the filter list and each occur in a visit of the configured direction;
\* every Route it returns has a prediction, and no route code of the filter
\* list with a matching visit is missing.
C7_OnlyWantedRoutes ==
    pc = "predictions_for_route_codes" =>
        /\ \A c \in DOMAIN routes :
              /\ \E k \in 1..Len(route_codes) : route_codes[k] = c
              /\ \E i \in WantedVisits : data.MonitoredStopVisit[i].LineRef = c
              /\ Len(routes[c].predictions) >= 1
        /\ \A i \in WantedVisits : data.MonitoredStopVisit[i].LineRef \in DOMAIN routes

\* C7's case: a route is returned from a document that also holds a visit
\* of a configured route code in the other direction
C7_Witness ==
    /\ pc = "predictions_for_route_codes"
    /\ DOMAIN routes # {}
    /\ \E i \in 1..Len(data.MonitoredStopVisit) :
          /\ i \notin WantedVisits
          /\ \E k \in 1..Len(route_codes) : route_codes[k] = data.MonitoredStopVisit[i].LineRef
          /\ data.MonitoredStopVisit[i].LineRef \notin DOMAIN routes

\* C8: when no visit matches, predictions_for_route_codes returns an empty
\* mapping and prediction_seconds_soonest returns a sentinel that is not
\* null, in every variant of the extractor.
C8_NoMatchGivesNonNullSentinel ==
    WantedVisits = {} =>
        /\ pc = "predictions_for_route_codes" => DOMAIN routes = {}
        /\ pc \in {"prediction_seconds_soonest", "transit_api_511.prediction_seconds_soonest"}
              => seconds_soonest.kind = "int"

\* C9: the predictions of a route are, for its matching visits in feed
\* order, floor(total_seconds / 60) of the time from the response timestamp
\* to the expected arrival, whatever the difference.
C9_MinutesAreFloorOfTotalSeconds ==
    pc = "predictions_for_route_codes" =>
        \A c \in DOMAIN routes :
            LET of_c(v) == Wanted(v) /\ v.LineRef = c
                matching == SelectSeq(data.MonitoredStopVisit, of_c)
            IN  routes[c].predictions =
                    [i \in 1..Len(matching) |-> PyInt(SecondsUntil(matching[i]) \div 60)]

\* C10: prediction_seconds_soonest returns the total seconds from the
\* response timestamp to the expected arrival of the first matching visit
\* in feed order.
C10_SoonestIsFirstMatchTotalSeconds ==
    (pc = "prediction_seconds_soonest" /\ WantedVisits # {}) =>
        LET first == CHOOSE i \in WantedVisits : \A j \in WantedVisits : i <= j
        IN  seconds_soonest = PyInt(SecondsUntil(data.MonitoredStopVisit[first]))

\* the tokens of the first min(k, m) minute values: "Now" for a first value
\* of 0, the value followed by "m" for every other
ExpectedTokens(minutes, m) ==
    [i \in 1..Min(Len(minutes), m) |->
        IF i = 1 /\ minutes[1].n = 0 THEN "Now" ELSE ToString(minutes[i].n) \o "m"]

RECURSIVE JoinWords(_)
JoinWords(words) ==
    IF Len(words) = 0 THEN ""
    ELSE IF Len(words) = 1 THEN words[1]
    ELSE words[1] \o " " \o JoinWords(Tail(words))

\* C11: a formatter given a Route of k >= 1 minute values and a maximum M
\* returns a prediction line of exactly the first min(k, M) values in their
\* order, each written as the value followed by "m", except that the first
\* is "Now" when it is 0; a 0 further on stays "0m".
C11_PredictionLineIsFirstTokens ==
    [][pc = "input" /\ source = "formatter"
         => LET minutes == routes[route_codes[1]].predictions
                m == IF pc' = "PredictionFormatter.format" THEN MAX_PREDICTIONS
                     ELSE max_predictions
            IN  /\ Len(predictions') = 2
                /\ predictions'[2] = JoinWords(ExpectedTokens(minutes, m))]_vars

\* the Route of 0, 5 and 12 minutes was rendered with a maximum of 2
C11_Witness ==
    /\ pc = "get_predictions"
    /\ source = "formatter"
    /\ max_predictions = 2
    /\ predictions = <<"J Church", "Now 5m">>
    /\ routes["J"].predictions = <<PyStr("Now"), PyStr("5m"), PyInt(12)>>

\* the visits of the document that are of the route code and the configured
\* direction, in feed order
VisitsOf(code) ==
    SelectSeq(data.MonitoredStopVisit,
              LAMBDA visit : visit.LineRef = code /\ visit.DirectionRef = direction)

\* the configured route codes the extraction result holds, in configured order
PresentCodes == SelectSeq(route_codes, LAMBDA code : Len(VisitsOf(code)) > 0)

\* the minute values the extractor appends for the route code
MinutesOf(code) ==
    [i \in 1..Len(VisitsOf(code)) |-> PyInt(VisitMinutes(data, VisitsOf(code)[i]))]

\* get_predictions has returned its lines for a document in the current cycle
LinesReturned ==
    /\ Controller
    /\ pc \in {"get_refresh_interval", "show", "sleep"}
    /\ data.kind = "feed"

\* C12: on a successful poll the lines are, for each configured route code
\* the extraction result holds and in the order of the configured list
\* (whatever the order of the feed), the line "<code> <title>" followed by the
\* route's prediction line; a configured code without a match adds no line.
C12_LinesFollowConfiguredOrder ==
    LinesReturned
        => /\ Len(predictions) = 2 * Len(PresentCodes)
           /\ \A j \in 1..Len(PresentCodes) :
                 LET code == PresentCodes[j]
                 IN  /\ predictions[2 * j - 1]
                           = code \o " " \o VisitsOf(code)[1].PublishedLineName
                     /\ (\A k \in 1..(j - 1) : PresentCodes[k] # code)
                           => predictions[2 * j]
                                = JoinWords(ExpectedTokens(MinutesOf(code), max_predictions))

\* the feed lists a J visit before an N visit, the configured list N before J
C12_Witness ==
    /\ LinesReturned
    /\ route_codes = <<"N", "J">>
    /\ Len(data.MonitoredStopVisit) = 2
    /\ data.MonitoredStopVisit[1].LineRef = "J"
    /\ predictions = <<"N Judah", "8m", "J Church", "Now">>

C14_SignShowsLastTextOnly ==
    (source = "Sign" /\ pc = "Sign.show")
        => LET text == shown[Len(shown)]
           IN  /\ Len(lines) = Len(SignLines)
               /\ \A i \in 1..Len(lines) :
                     lines[i] = IF i <= Len(text) THEN text[i] ELSE ""

\* a list of one line was shown after a list longer than the sign
C14_Witness ==
    /\ source = "Sign"
    /\ pc = "Sign.show"
    /\ Len(shown) = 2
    /\ Len(shown[1]) > Len(lines)
    /\ Len(shown[2]) = 1
    /\ lines = <<shown[2][1], "", "", "">>

\* the document the response held by the controller decodes to
FetchedDocument ==
    IF SuccessStatus(response.status_code) /\ Decodable(response.content)
    THEN response.content.text.value
    ELSE None

\* the fetch, the one call of the sink and the sleep follow one another, and
\* what is shown and slept comes from the document of the cycle's one fetch
CycleInOrder ==
    /\ pc = "get_predictions" => requests = 0 /\ shown = <<>>
    /\ pc \in {"get_refresh_interval", "show"} => requests = 1 /\ shown = <<>>
    /\ pc = "sleep"
          => /\ requests = 1
             /\ shown = <<predictions>>
             /\ data = FetchedDocument
             /\ predictions = PredictionText(Poll(response), route_codes, direction,
                                             max_predictions).text
             /\ wait = IF Truthy(data)
                       THEN PyInt(Clamp(prediction_seconds_soonest(data, route_codes,
                                                                   direction).n))
                       ELSE PyInt(ERROR_REFRESH_SEC)

\* C15: the loop is strictly sequential: every cycle issues exactly one
\* fetch, calls the sink once and after the fetch, sleeps after the call of
\* the sink, and the next fetch follows the sleep; the lines shown and the
\* interval slept are computed from the document of that one fetch.
C15_CycleIsSequential ==
    Controller
        => /\ CycleInOrder
           /\ requests = 1 => pc \in {"get_refresh_interval", "show", "sleep"}

\* C16: whatever the outcome of a poll (success, a status outside [200, 300),
\* a body that does not decode), the response fetched is closed when the poll
\* is over, before the controller sleeps.
C16_ResponseClosedAfterPoll ==
    (Controller /\ Fetched) => response.closed

\* C17: after a poll the controller holds a document exactly when the status
\* was in [200, 300) and the body decoded, and the "Network Error" lines are
\* returned only after a poll that failed: never for a document that decoded,
\* the empty JSON object included.
C17_FallbackOnlyAfterFailedPoll ==
    (Controller /\ Fetched /\ pc \in {"get_refresh_interval", "show", "sleep"})
        => LET succeeded == /\ SuccessStatus(response.status_code)
                            /\ Decodable(response.content)
           IN  /\ (data # None) <=> succeeded
               /\ succeeded => (predictions = <<>> \/ predictions[1] # "Network Error")

\* C18: formatting leaves the Route as it was: after get_predictions or
\* PredictionFormatter.format rendered a Route, as before, every element of
\* its predictions is a minute value and none a display string.
C18_RoutePredictionsStayNumeric ==
    \A code \in DOMAIN routes :
        \A i \in 1..Len(routes[code].predictions) :
            routes[code].predictions[i].kind = "int"

\* C19: one extraction returns exactly one Route for each route code that has
\* a matching visit; its title is that of the code's first matching visit in
\* feed order, and its predictions are the minute values of all the code's
\* matching visits in feed order, neither sorted nor de-duplicated.
C19_OneRoutePerCodeInFeedOrder ==
    (source = "JsonHandler" /\ pc = "predictions_for_route_codes")
        => /\ DOMAIN routes = {code \in Range(route_codes) : Len(VisitsOf(code)) > 0}
           /\ \A code \in DOMAIN routes :
                 /\ routes[code].route_code = code
                 /\ routes[code].title = VisitsOf(code)[1].PublishedLineName
                 /\ routes[code].predictions = MinutesOf(code)

\* two visits of J under different line names, the later arrival listed first
C19_Witness ==
    /\ source = "JsonHandler"
    /\ pc = "predictions_for_route_codes"
    /\ Len(data.MonitoredStopVisit) = 2
    /\ data.MonitoredStopVisit[1] = OwlVisit
    /\ data.MonitoredStopVisit[2].PublishedLineName = "Church"
    /\ routes = ("J" :> [route_code |-> "J", title |-> "Church Owl",
                         predictions |-> <<PyInt(1), PyInt(0)>>])

\* C20: nothing of an earlier cycle survives: once a cycle has fetched, the
\* controller holds the document of that fetch or none, what a finished
\* cycle leaves on the sign comes from its own response, and a failed poll
\* that follows a successful cycle leaves the "Network Error" lines there,
\* not the predictions of the cycle before.
C20_NoStateSurvivesACycle ==
    (Controller /\ requests = 1)
        => /\ data = FetchedDocument
           /\ pc = "sleep"
                 => lines = SignShow(SignLines,
                                     PredictionText(Poll(response), route_codes, direction,
                                                    max_predictions).text)
           /\ (pc \in {"sleep", "except", "reset"} /\ wait.kind = "int"
                   /\ FetchedDocument = None)
                 => lines = SignShow(SignLines,
                                     <<"Network Error", ToString(response.status_code),
                                       response.reason>>)

\* the configuration the controller was constructed with
Configuration ==
    [agency |-> agency, stop_code |-> stop_code, route_codes |-> route_codes,
     direction |-> direction, max_predictions |-> max_predictions]

\* C21: no step of the controller or of the extractor changes the
\* configuration: agency, stop code, the ordered route-code list, direction
\* and max_predictions are after any number of cycles what they were at
\* construction.
C21_ConfigurationNeverChanges ==
    [][Configuration' = Configuration]_vars

\* a second cycle has reached its sleep with the configuration it started with
C21_Witness ==
    /\ Controller
    /\ pc = "sleep"
    /\ slept.kind = "int"
    /\ slept.n >= MIN_REFRESH_SEC
    /\ Configuration \in RunConfigs

\* C22: an exception that escapes run or the start-up steps is caught by the
\* supervisor of code.py, which sleeps RESET_DELAY_SEC (30 seconds) and then
\* resets the device, once; the device is never reset without an exception
\* that escaped before.
C22_ResetOnceAfterEscapedException ==
    /\ [](/\ exc # "none" <=> pc \in {"except", "reset"}
          /\ pc = "reset" => slept = PyInt(30))
    /\ [][/\ pc = "except" => (pc' = "reset" /\ exc' = exc)
          /\ pc' = "reset" => pc = "except"
          /\ pc = "reset" => (pc' = "boot" /\ exc' = "none")]_vars

\* the supervisor has slept 30 seconds after an exception escaped run
C22_WitnessRun ==
    /\ pc = "reset"
    /\ requests = 1
    /\ exc = "NameError"
    /\ slept = PyInt(RESET_DELAY_SEC)

\* a minute value of less than a day followed by one "m"
MinuteTokens == {ToString(m) \o "m" : m \in 0..(SecondsPerDay \div 60 - 1)}

\* the strings get_predictions joined into the last line it built for the
\* route code
TokensOf(code) ==
    [i \in 1..Min(max_predictions, Len(routes[code].predictions)) |->
        routes[code].predictions[i].s]

\* C23: on a successful poll every token of every prediction line is "Now"
\* or a non-negative decimal integer followed by exactly one "m", and "Now"
\* is a first token only, whatever the configured route-code list, a list
\* naming a route code twice included.
C23_TokensAreNowOrMinutes ==
    LinesReturned
        => \A j \in 1..Len(PresentCodes) :
              LET code == PresentCodes[j]
              IN  (\A k \in (j + 1)..Len(PresentCodes) : PresentCodes[k] # code)
                     => /\ predictions[2 * j] = JoinWords(TokensOf(code))
                        /\ \A i \in 1..Len(TokensOf(code)) :
                              \/ TokensOf(code)[i] \in MinuteTokens
                              \/ i = 1 /\ TokensOf(code)[i] = "Now"

\* C24: with the wiring transit_predictions_app_io ships, the object
\* get_source returns supports get_predictions and get_refresh_interval, so
\* that no cycle of run, the first included, ends at the supervisor's reset
\* for want of them: once the device is connected, run goes on to show and
\* sleep.
C24_ShippedSourceServesRun ==
    source = "TransitApi"
        => /\ exc # "AttributeError"
           /\ pc \in {"except", "reset"} => exc = "ConnectionError"

====
